---- MODULE Spec2Model ----
(***************************************************************************)
(* Model of get_invoices.py: the retry-GET of the listing endpoint, the    *)
(* cursor pagination of one credential, the transaction-date fetcher, the  *)
(* thread-pool orchestration over the credentials, and the                 *)
(* filter / enrichment / load pipeline that follows it.                    *)
(***************************************************************************)
EXTENDS Integers, Sequences, FiniteSets, TLC

\* ------------------------------------------------------------------ bounds
\* Credentials of the PENNYLANE_TOKENS mapping are named 1..MaxCreds.
MaxCreds == 4
\* Largest max_retries argument tried on a stand-alone retry-GET call.
MaxRetriesArg == 7
\* Credentials of a run that is followed through filter, enrichment and load.
MaxRunCreds == 2
\* Rows of the combined result that is followed through the enrichment.
MaxRows == 3
\* Pages one credential's listing may be asked for before the model stops it.
MaxPages == 3
\* GET requests one transaction-date call may issue before the model stops it.
MaxDateGets == 7

\* ------------------------------------------------------- program constants
\* max_retries=5, the default of both retry functions.
DefaultMaxRetries == 5
\* min(60, ...): the cap of the listing backoff.
BackoffCap == 60
\* ThreadPoolExecutor(max_workers=3).
MaxWorkers == 3

Creds == 1..MaxCreds

\* ------------------------------------------------------------ Python values
\* JSON null / a missing key read with .get(): Python None.
NullCursor == "null"
\* The key "cursor" is not in the params dict.
AbsentParam == "absent"
\* Truthiness of a next_cursor value: None and the empty string are falsy.
Truthy(s) == s \notin {NullCursor, ""}

Min(a, b) == IF a <= b THEN a ELSE b

\* The body used where a response carries nothing the caller reads.
NoBody == [json |-> FALSE, dict |-> FALSE, has_items |-> FALSE, items |-> <<>>,
           has_more |-> "absent", next_cursor |-> NullCursor]

\* A response of requests.get: exc is TRUE when the call raised instead
\* (connection error, timeout of the transport, ...).
Resp(exc, status, body) == [exc |-> exc, status |-> status, body |-> body]

\* The value request_with_retries hands back: a response, or None.
NoResponse == [none |-> TRUE, status |-> 0, body |-> NoBody]
Returned(r) == [none |-> FALSE, status |-> r.status, body |-> r.body]

\* ------------------------------------------------------------------- state
VARIABLES
    tokens,        \* the credential mapping: name -> token value
    task,          \* per credential: the frame of its fetch_invoices_for_token
    queue,         \* work items submitted to the pool and not yet started
    submitted,     \* credentials already passed to executor.submit
    collected,     \* futures the as_completed loop has already handled
    logged,        \* credentials whose exception the collection loop logged
    all_rows,      \* the combined result collection
    phase,         \* position of the main thread
    aborted,       \* stage whose unhandled exception ended the run, or "no"
    df,            \* the working data frame (a sequence of rows)
    transaction_dates, \* the dates gathered by the enrichment loop
    date,          \* the frame of fetch_transaction_date_with_retries
    table          \* contents of the destination table

vars == <<tokens, task, queue, submitted, collected, logged, all_rows, phase,
          aborted, df, transaction_dates, date, table>>

pipeline == <<queue, submitted, collected, logged, all_rows, phase, aborted,
              df, transaction_dates, date, table>>

\* ------------------------------------------------------------- task frames
\* A task that has not been submitted. Besides the locals of
\* fetch_invoices_for_token and of the request_with_retries call in
\* progress, a frame keeps what the claims are stated about: runs, the
\* number of times the function was entered for the credential; reqs, the
\* cursor parameter of each request_with_retries call made; pages, the
\* bodies of the pages processed; and, for the call in progress, gets (GET
\* requests issued), statuses (answers received) and waits (sleeps made);
\* throttled tells whether an earlier call of the pagination received a 429.
IdleTask == [pc |-> "idle", rows |-> <<>>, cursor |-> NullCursor,
             has_more |-> TRUE, params |-> AbsentParam,
             retries |-> 0, max_retries |-> DefaultMaxRetries,
             response |-> NoResponse, runs |-> 0, reqs |-> <<>>,
             pages |-> <<>>, gets |-> 0, statuses |-> <<>>, waits |-> <<>>,
             throttled |-> FALSE]

\* The local "response" of fetch_transaction_date_with_retries before the
\* first requests.get has returned.
NoDateResponse ==
    [exc |-> FALSE, status |-> 0,
     body |-> [json |-> FALSE, dict |-> FALSE, has_items |-> FALSE, items |-> <<>>]]

\* fetch_transaction_date_with_retries is not being called. response is
\* the outcome of the latest requests.get of the call.
IdleDate == [pc |-> "idle", url |-> "", retries |-> 0,
             max_retries |-> DefaultMaxRetries, gets |-> 0,
             statuses |-> <<>>, waits |-> <<>>, result |-> "null",
             response |-> NoDateResponse]

\* ------------------------------------------------------------ time.sleep
\* Variant of the sleep that stops every thread of the process.
SleepSuspendsAll(c) == Creds

\* time.sleep in the task of credential c suspends the thread that calls
\* it, the worker thread of c, and no other.
SleepSuspends(c) == {c}

\* The task is in time.sleep: the backoff wait of request_with_retries or
\* the politeness delay of fetch_invoices_for_token.
Sleeping(t) == t.pc \in {"backoff", "delay"}

\* ------------------------------------------------ request_with_retries
\* Off-by-one variant of the loop test: one attempt too many.
RetryAllowedInclusive(retries, max_retries) == retries <= max_retries

\* while retries < max_retries
RetryAllowed(retries, max_retries) == retries < max_retries

\* Variant of the backoff that forgets the cap.
BackoffWaitUncapped(retries) == 2 ^ retries

\* wait = min(60, 2 ** retries)
BackoffWait(retries) == Min(BackoffCap, 2 ^ retries)

\* response.status_code == 200 / == 429
IsOk(status) == status = 200
IsRateLimited(status) == status = 429

\* A 429 is among the statuses ss.
RateLimits(ss) == \E i \in 1..Len(ss) : ss[i] = 429

\* Variant of the entry that keeps the retry counter of the earlier calls.
CallGetSharedBudget(t, max_retries) ==
    [t EXCEPT !.pc = "get", !.max_retries = max_retries,
              !.response = NoResponse, !.reqs = Append(@, t.params),
              !.gets = 0, !.statuses = <<>>, !.waits = <<>>,
              !.throttled = @ \/ RateLimits(t.statuses)]

\* The frame of task t at the entry of request_with_retries(url, headers,
\* params, max_retries): retries = 0.
CallGet(t, max_retries) ==
    [t EXCEPT !.pc = "get", !.retries = 0, !.max_retries = max_retries,
              !.response = NoResponse, !.reqs = Append(@, t.params),
              !.gets = 0, !.statuses = <<>>, !.waits = <<>>,
              !.throttled = @ \/ RateLimits(t.statuses)]

\* One evaluation of the loop of request_with_retries for task t, the
\* endpoint answering with r: the frame afterwards.
GetIteration(t, r) ==
    LET sent == [t EXCEPT !.gets = @ + 1]
        seen == [sent EXCEPT !.statuses = Append(@, r.status)]
    IN  IF r.exc
        THEN [sent EXCEPT !.pc = "raised"]
        ELSE IF IsOk(r.status)
        THEN [seen EXCEPT !.pc = "got", !.response = Returned(r)]
        ELSE IF IsRateLimited(r.status)
        THEN [seen EXCEPT !.pc = "backoff",
                          !.waits = Append(@, BackoffWait(t.retries))]
        ELSE [seen EXCEPT !.pc = "got", !.response = NoResponse]

\* The loop test of request_with_retries with its two outcomes: one more
\* iteration (lines 30-40), the endpoint answering with r, or the exit of
\* the loop once the retries are used up (lines 41-42).
GetOrGiveUp(t, r) ==
    IF RetryAllowed(t.retries, t.max_retries)
    THEN GetIteration(t, r)
    ELSE [t EXCEPT !.pc = "got", !.response = NoResponse]

\* time.sleep(wait) is over: retries += 1.
AfterBackoff(t) == [t EXCEPT !.pc = "get", !.retries = @ + 1]

\* The thread of task c is suspended by the sleep of another task.
Held(c) == \E d \in Creds \ {c} : Sleeping(task[d]) /\ c \in SleepSuspends(d)

\* One step of the request_with_retries call of task c: the loop test and
\* what follows it, up to the return or the sleep.
GetStep(c, R) ==
    /\ task[c].pc = "get"
    /\ ~Held(c)
    /\ \E r \in R : task' = [task EXCEPT ![c] = GetOrGiveUp(task[c], r)]
    /\ UNCHANGED <<tokens, pipeline>>

\* The sleep of task c ends and its loop goes on.
BackoffDone(c) ==
    /\ task[c].pc = "backoff"
    /\ ~Held(c)
    /\ task' = [task EXCEPT ![c] = AfterBackoff(task[c])]
    /\ UNCHANGED <<tokens, pipeline>>

\* A whole request_with_retries call of frame t, the endpoint answering
\* its requests with the responses of script, in order: the frame at the
\* return (pc = "got") or at the raise; the frame stays in the loop when
\* the script is too short for the call.
RECURSIVE RunCall(_, _)
RunCall(t, script) ==
    IF t.pc = "backoff" THEN RunCall(AfterBackoff(t), script)
    ELSE IF t.pc # "get" THEN t
    ELSE IF ~RetryAllowed(t.retries, t.max_retries) THEN GetOrGiveUp(t, Resp(TRUE, 0, NoBody))
    ELSE IF script = <<>> THEN t
    ELSE RunCall(GetOrGiveUp(t, Head(script)), Tail(script))

\* ------------------------------------------------ fetch_invoices_for_token
\* The JSON body of a listing response: json/dict tell whether it decodes
\* and decodes to an object; items is its "items" list when has_items;
\* has_more is "true", "false" or "absent"; next_cursor a string or null.
ListBody(json, dict, has_items, items, has_more, next_cursor) ==
    [json |-> json, dict |-> dict, has_items |-> has_items, items |-> items,
     has_more |-> has_more, next_cursor |-> next_cursor]

\* One element of "items": an object (dict) with the fields the code reads,
\* or something else. mt is the shape of its "matched_transactions":
\* "none" (missing, null or empty), "dict" (an object, url its "url") or
\* "other" (a non-empty value without .get, such as a list).
Invoice(dict, label, reconciled, accounting_status, mt, url) ==
    [dict |-> dict, label |-> label, reconciled |-> reconciled,
     accounting_status |-> accounting_status, mt |-> mt, url |-> url]

\* invoice.get(...) / matched_transaction.get("url") raise AttributeError
\* on a value that is no dict.
ItemRaises(inv) == ~inv.dict \/ inv.mt = "other"

\* The row appended for one invoice (lines 76-107).
Row(tag, inv) ==
    [tag |-> tag, label |-> inv.label, reconciled |-> inv.reconciled,
     accounting_status |-> inv.accounting_status,
     matching_transaction |-> IF inv.mt = "dict" THEN inv.url ELSE "null"]

\* The rows appended by the for loop over items, which stops at the first
\* invoice that raises.
RECURSIVE RowsOf(_, _)
RowsOf(tag, items) ==
    IF items = <<>> \/ ItemRaises(Head(items)) THEN <<>>
    ELSE <<Row(tag, Head(items))>> \o RowsOf(tag, Tail(items))

\* Variant of the break that goes on to the next loop test instead.
BreakContinues(t) == [t EXCEPT !.pc = "delay"]

\* break: the loop is left and the rows gathered so far are returned.
Break(t) == [t EXCEPT !.pc = "returned"]

\* has_more = data.get("has_more", False)
HasMore(data) == data.has_more = "true"

\* Variant that never replaces a cursor already in params.
NextParamsKeepFirst(params, cursor) ==
    IF Truthy(cursor) /\ params = AbsentParam THEN cursor ELSE params

\* if cursor: params["cursor"] = cursor  (params is one dict for the whole
\* pagination: an entry written for an earlier page stays in it).
NextParams(params, cursor) == IF Truthy(cursor) THEN cursor ELSE params

\* The loop test and the call of request_with_retries (lines 57-61), or
\* the return of the rows (line 112).
LoopTest(t) ==
    IF t.has_more
    THEN CallGet([t EXCEPT !.params = NextParams(@, t.cursor)], DefaultMaxRetries)
    ELSE [t EXCEPT !.pc = "returned"]

\* Lines 62-110 for the value request_with_retries returned, up to the
\* politeness delay.
ParsePage(t, tag) ==
    LET data == t.response.body
    IN  IF t.response.none THEN Break(t)
        ELSE IF ~data.json THEN Break(t)
        ELSE IF ~data.dict THEN [t EXCEPT !.pc = "raised"]
        ELSE IF ~data.has_items THEN Break(t)
        ELSE IF \E i \in 1..Len(data.items) : ItemRaises(data.items[i])
        THEN [t EXCEPT !.rows = @ \o RowsOf(tag, data.items), !.pc = "raised"]
        ELSE [t EXCEPT !.rows = @ \o RowsOf(tag, data.items),
                       !.has_more = HasMore(data),
                       !.cursor = data.next_cursor,
                       !.pages = Append(@, data),
                       !.pc = "delay"]

\* Lines 47-61: the locals are set up and the first request is called.
StartFetch(t) == LoopTest([t EXCEPT !.rows = <<>>, !.cursor = NullCursor,
                                    !.has_more = TRUE, !.params = AbsentParam,
                                    !.runs = @ + 1, !.statuses = <<>>,
                                    !.throttled = FALSE])

\* The task handles what request_with_retries returned.
Parse(c) ==
    /\ task[c].pc = "got"
    /\ ~Held(c)
    /\ task' = [task EXCEPT ![c] = ParsePage(task[c], c)]
    /\ UNCHANGED <<tokens, pipeline>>

\* time.sleep(0.5) is over: the loop test, then the next request or the
\* return. The model stops a pagination at P requests.
DelayDone(c, P) ==
    /\ task[c].pc = "delay"
    /\ ~Held(c)
    /\ task[c].has_more => Len(task[c].reqs) < P
    /\ task' = [task EXCEPT ![c] = LoopTest(task[c])]
    /\ UNCHANGED <<tokens, pipeline>>

\* One turn of the pagination loop of task c as a single step: the
\* request_with_retries call, answered by one of the scripts S[cur] for
\* the cursor parameter cur sent, the handling of what it returned, the delay
\* and the loop test (lines 57-112).
PageStep(c, S) ==
    /\ task[c].pc = "get"
    /\ task[c].gets = 0
    /\ \E script \in S[task[c].params] :
         LET called == RunCall(task[c], script)
             parsed == IF called.pc = "got" THEN ParsePage(called, c) ELSE called
         IN  /\ called.pc \in {"got", "raised"}
             /\ called.gets = Len(script)
             /\ task' = [task EXCEPT ![c] =
                           IF parsed.pc = "delay" THEN LoopTest(parsed) ELSE parsed]
    /\ UNCHANGED <<tokens, pipeline>>

\* ------------------------------------ fetch_transaction_date_with_retries
\* The JSON body of a transaction response: json/dict tell whether it
\* decodes and decodes to an object; items is its "items" list when
\* has_items, each item an object (dict) with a date, or something else.
TxnBody(json, dict, has_items, items) ==
    [json |-> json, dict |-> dict, has_items |-> has_items, items |-> items]

TxnItem(dict, d) == [dict |-> dict, date |-> d]

\* while retries < max_retries
DateRetryAllowed(retries, max_retries) == retries < max_retries

\* elif response.status_code == 429 / elif 500 <= response.status_code < 600
DateRetryable(status) == status = 429 \/ (500 <= status /\ status < 600)

\* time.sleep(2 ** retries)
DateWait(retries) == 2 ^ retries

\* The retry counter after a 429 or 5xx answer: the loop body holds no
\* "retries += 1", the counter keeps its value.
DateRetriesAfter(retries) == retries

\* Variant that reads the date of the last item instead of the first.
DateOfLast(body) ==
    IF ~body.json \/ ~body.dict THEN "null"
    ELSE LET items == IF body.has_items THEN body.items ELSE <<>>
         IN  IF items = <<>> THEN "null"
             ELSE IF ~items[Len(items)].dict THEN "null"
             ELSE items[Len(items)].date

\* items = response.json().get("items", []);
\* return items[0].get("date") if items else None
\* Any exception (undecodable body, a body or a first item that is no
\* object) is caught by "except Exception: return None".
DateOf(body) ==
    IF ~body.json \/ ~body.dict THEN "null"
    ELSE LET items == IF body.has_items THEN body.items ELSE <<>>
         IN  IF items = <<>> THEN "null"
             ELSE IF ~items[1].dict THEN "null"
             ELSE items[1].date

\* The frame at the entry of fetch_transaction_date_with_retries(url,
\* headers, max_retries).
CallDate(url, max_retries) ==
    [IdleDate EXCEPT !.pc = "get", !.url = url, !.max_retries = max_retries]

\* One evaluation of the loop body, the endpoint answering with r.
DateIteration(d, r) ==
    LET sent == [d EXCEPT !.gets = @ + 1, !.response = r]
        seen == [sent EXCEPT !.statuses = Append(@, r.status)]
    IN  IF r.exc
        THEN [sent EXCEPT !.pc = "done", !.result = "null"]
        ELSE IF r.status = 200
        THEN [seen EXCEPT !.pc = "done", !.result = DateOf(r.body)]
        ELSE IF DateRetryable(r.status)
        THEN [seen EXCEPT !.waits = Append(@, DateWait(d.retries)),
                          !.retries = DateRetriesAfter(@)]
        ELSE [seen EXCEPT !.pc = "done", !.result = "null"]

\* The loop of fetch_transaction_date_with_retries, one iteration at a
\* time, the sleep included; the model stops a call at MaxDateGets requests.
DateStep(R) ==
    /\ date.pc = "get"
    /\ IF DateRetryAllowed(date.retries, date.max_retries)
       THEN /\ date.gets < MaxDateGets
            /\ \E r \in R : date' = DateIteration(date, r)
       ELSE date' = [date EXCEPT !.pc = "done", !.result = "null"]
    /\ UNCHANGED <<tokens, task, queue, submitted, collected, logged, all_rows,
                   phase, aborted, df, transaction_dates, table>>

\* ------------------------------------------------------ the orchestration
\* A fetch task is in flight: a worker thread has started and not ended it.
Running(t) == t.pc \in {"get", "backoff", "got", "delay"}

\* Variant of the completion test that takes a task in flight for done.
Started(t) == t.pc \in {"get", "backoff", "got", "delay", "returned", "raised"}

\* The future of the task is done: it returned or raised.
Finished(t) == t.pc \in {"returned", "raised"}

InFlight == {c \in Creds : Running(task[c])}

\* Variant of the filter that looks at reconciled only.
KeepReconciled(row) == row.reconciled = "true"

\* Variant of the pool with one worker thread too many.
WorkerFreeOneMore(n) == n <= MaxWorkers

\* A worker takes a work item only when fewer than max_workers tasks run.
WorkerFree(n) == n < MaxWorkers

\* json.loads(os.environ["PENNYLANE_TOKENS"]) gives the mapping, or raises.
LoadCredentials ==
    /\ phase = "start"
    /\ \/ phase' = "submit" /\ aborted' = aborted
       \/ phase' = "aborted" /\ aborted' = "credentials"
    /\ UNCHANGED <<tokens, task, queue, submitted, collected, logged, all_rows,
                   df, transaction_dates, date, table>>

\* executor.submit(fetch_invoices_for_token, name, value) for the next
\* item of tokens.items().
Submit(c) ==
    /\ phase = "submit"
    /\ c \in DOMAIN tokens
    /\ c \notin submitted
    /\ \A b \in DOMAIN tokens : b < c => b \in submitted
    /\ submitted' = submitted \cup {c}
    /\ queue' = Append(queue, c)
    /\ task' = [task EXCEPT ![c] = [@ EXCEPT !.pc = "queued"]]
    /\ UNCHANGED <<tokens, collected, logged, all_rows, phase, aborted, df,
                   transaction_dates, date, table>>

\* The dict comprehension is complete: the as_completed loop begins.
AllSubmitted ==
    /\ phase = "submit"
    /\ submitted = DOMAIN tokens
    /\ phase' = "collect"
    /\ UNCHANGED <<tokens, task, queue, submitted, collected, logged, all_rows,
                   aborted, df, transaction_dates, date, table>>

\* A free worker thread takes the oldest work item and runs the task up
\* to its first request.
Start(c) ==
    /\ queue # <<>>
    /\ c = Head(queue)
    /\ WorkerFree(Cardinality(InFlight))
    /\ queue' = Tail(queue)
    /\ task' = [task EXCEPT ![c] = StartFetch(task[c])]
    /\ UNCHANGED <<tokens, submitted, collected, logged, all_rows, phase,
                   aborted, df, transaction_dates, date, table>>

\* Variant of the collection that keeps the latest result only.
ExtendReplaces(rows, result) == result

\* all_rows.extend(result)
Extend(rows, result) == rows \o result

\* One turn of the as_completed loop for the finished future of c:
\* future.result() returns the rows, which are appended, or raises the
\* task's exception, which is caught and printed.
Collect(c) ==
    /\ phase = "collect"
    /\ c \in submitted \ collected
    /\ Finished(task[c])
    /\ collected' = collected \cup {c}
    /\ IF task[c].pc = "returned"
       THEN all_rows' = Extend(all_rows, task[c].rows) /\ logged' = logged
       ELSE all_rows' = all_rows /\ logged' = logged \cup {c}
    /\ UNCHANGED <<tokens, task, queue, submitted, phase, aborted, df,
                   transaction_dates, date, table>>

\* Every future has been handled: the with block is left.
ExitPool ==
    /\ phase = "collect"
    /\ collected = submitted
    /\ phase' = "filter"
    /\ UNCHANGED <<tokens, task, queue, submitted, collected, logged, all_rows,
                   aborted, df, transaction_dates, date, table>>

\* ------------------------------------------------- filter, enrich, load
\* (df['reconciled'] == True) & (df['accounting_status'] != 'archived')
Keep(row) == row.reconciled = "true" /\ row.accounting_status # "archived"

\* pd.DataFrame([]) has no columns: df['reconciled'] raises KeyError.
FilterRaises(rows) == rows = <<>>

\* Lines 156-160.
Filter ==
    /\ phase = "filter"
    /\ IF FilterRaises(all_rows)
       THEN phase' = "aborted" /\ aborted' = "filter" /\ df' = df
       ELSE phase' = "enrich" /\ aborted' = aborted /\ df' = SelectSeq(all_rows, Keep)
    /\ transaction_dates' = <<>>
    /\ UNCHANGED <<tokens, task, queue, submitted, collected, logged, all_rows,
                   date, table>>

\* A matching_transaction that is no string: a number, or a JSON array of
\* two or more elements.
NonStringUrl == "<number>"
ArrayUrl == "<array>"

\* not url or pd.isna(url) or ...: for a list of two or more elements
\* "not url" is False and pd.isna(url) is an array of booleans, whose truth
\* value the "or" asks for: ValueError.
UrlTestRaises(url) == url = ArrayUrl

\* not url or pd.isna(url) or not isinstance(url, str) or not url.strip()
BlankUrl(url) == url \in {"null", "", " ", NonStringUrl}

\* token = tokens.get(tag); if not token
NoToken(tag) == tag \notin DOMAIN tokens \/ tokens[tag] = ""

\* One turn of the enrichment loop up to its continue or to the call of
\* fetch_transaction_date_with_retries (lines 162-181).
EnrichRow ==
    /\ phase = "enrich"
    /\ date.pc = "idle"
    /\ Len(transaction_dates) < Len(df)
    /\ LET row == df[Len(transaction_dates) + 1]
       IN  IF UrlTestRaises(row.matching_transaction)
           THEN /\ phase' = "aborted" /\ aborted' = "enrich"
                /\ UNCHANGED <<transaction_dates, date>>
           ELSE IF BlankUrl(row.matching_transaction) \/ NoToken(row.tag)
           THEN /\ transaction_dates' = Append(transaction_dates, "null")
                /\ UNCHANGED <<date, phase, aborted>>
           ELSE /\ transaction_dates' = transaction_dates
                /\ date' = CallDate(row.matching_transaction, DefaultMaxRetries)
                /\ UNCHANGED <<phase, aborted>>
    /\ UNCHANGED <<tokens, task, queue, submitted, collected, logged, all_rows,
                   df, table>>

\* transaction_dates.append(date)
EnrichReturn ==
    /\ phase = "enrich"
    /\ date.pc = "done"
    /\ transaction_dates' = Append(transaction_dates, date.result)
    /\ date' = IdleDate
    /\ UNCHANGED <<tokens, task, queue, submitted, collected, logged, all_rows,
                   phase, aborted, df, table>>

\* Variant of the attachment that leaves out the null dates before it
\* pairs the dates with the rows.
DropUndatedShifted(rows, dates) ==
    LET ds == SelectSeq(dates, LAMBDA d : d # "null")
    IN  [j \in 1..Len(ds) |-> [tag |-> rows[j].tag, label |-> rows[j].label,
                               reconciled |-> rows[j].reconciled,
                               accounting_status |-> rows[j].accounting_status,
                               matching_transaction |-> rows[j].matching_transaction,
                               transaction_date |-> ds[j]]]

\* A row with its transaction_date column.
Dated(row, d) ==
    [tag |-> row.tag, label |-> row.label, reconciled |-> row.reconciled,
     accounting_status |-> row.accounting_status,
     matching_transaction |-> row.matching_transaction, transaction_date |-> d]

\* df["transaction_date"] = transaction_dates;
\* df = df[df["transaction_date"].notna()]
RECURSIVE DropUndated(_, _)
DropUndated(rows, dates) ==
    IF rows = <<>> THEN <<>>
    ELSE (IF Head(dates) = "null" THEN <<>> ELSE <<Dated(Head(rows), Head(dates))>>)
         \o DropUndated(Tail(rows), Tail(dates))

\* Lines 184-186, after the last row of the loop.
EnrichDone ==
    /\ phase = "enrich"
    /\ date.pc = "idle"
    /\ Len(transaction_dates) = Len(df)
    /\ df' = DropUndated(df, transaction_dates)
    /\ phase' = "load"
    /\ UNCHANGED <<tokens, task, queue, submitted, collected, logged, all_rows,
                   aborted, transaction_dates, date, table>>

\* Variant of the load that appends to the table (if_exists="append").
LoadAppends ==
    /\ phase = "load"
    /\ \/ phase' = "done" /\ aborted' = aborted /\ table' = table \o df
       \/ phase' = "aborted" /\ aborted' = "load" /\ table' = table
    /\ UNCHANGED <<tokens, task, queue, submitted, collected, logged, all_rows,
                   df, transaction_dates, date>>

\* pandas_gbq.to_gbq(df, ..., if_exists="replace"): the table is replaced
\* by df, or the call raises and ends the run.
Load ==
    /\ phase = "load"
    /\ \/ phase' = "done" /\ aborted' = aborted /\ table' = df
       \/ phase' = "aborted" /\ aborted' = "load" /\ table' = table
    /\ UNCHANGED <<tokens, task, queue, submitted, collected, logged, all_rows,
                   df, transaction_dates, date>>

\* ---------------------------------------------------------------- inputs
\* Statuses the endpoints answer with.
Statuses == {200, 204, 404, 429, 500}

\* Responses to a stand-alone retry-GET call: any status, or a raised GET.
GetResponses ==
    {Resp(FALSE, s, NoBody) : s \in Statuses} \cup {Resp(TRUE, 0, NoBody)}

\* Invoices of the listing endpoint.
InvA == Invoice(TRUE, "A", "true", "validated", "dict", "u1")
InvB == Invoice(TRUE, "B", "false", "archived", "none", "null")
InvNoDict == Invoice(FALSE, "", "null", "null", "none", "null")
InvMtList == Invoice(TRUE, "L", "true", "validated", "other", "null")

\* Pages that paginate: their items, has_more and next_cursor.
GoodBodies ==
    { ListBody(TRUE, TRUE, TRUE, items, hm, cur) :
        items \in {<<>>, <<InvA>>, <<InvB, InvA>>},
        hm \in {"true", "false", "absent"},
        cur \in {NullCursor, "", "C1", "C2"} }

\* Bodies that end a pagination: undecodable, no object, no "items", or an
\* invoice of unexpected shape.
BadBodies ==
    { ListBody(FALSE, FALSE, FALSE, <<>>, "absent", NullCursor),
      ListBody(TRUE, FALSE, FALSE, <<>>, "absent", NullCursor),
      ListBody(TRUE, TRUE, FALSE, <<>>, "true", "C1"),
      ListBody(TRUE, TRUE, TRUE, <<InvA, InvNoDict>>, "true", "C1"),
      ListBody(TRUE, TRUE, TRUE, <<InvMtList>>, "false", NullCursor) }

\* Responses of the listing endpoint to one credential.
PageResponses ==
    {Resp(FALSE, s, NoBody) : s \in Statuses \ {200}}
    \cup {Resp(FALSE, 200, b) : b \in GoodBodies \cup BadBodies}
    \cup {Resp(TRUE, 0, NoBody)}

\* What the destination table holds before the run.
PriorTable ==
    <<[tag |-> 0, label |-> "old", reconciled |-> "true",
       accounting_status |-> "validated", matching_transaction |-> "u0",
       transaction_date |-> "2024-12-31"]>>

\* The listing of a credential in a run over several credentials holds one
\* page or two: PageMore is a first page with more to come, PageLast a last
\* page, PageEmpty a last page without items.
PageMore == Resp(FALSE, 200, ListBody(TRUE, TRUE, TRUE, <<InvA>>, "true", "C1"))
PageLast == Resp(FALSE, 200, ListBody(TRUE, TRUE, TRUE, <<InvB, InvA>>, "false", NullCursor))
PageEmpty == Resp(FALSE, 200, ListBody(TRUE, TRUE, TRUE, <<>>, "false", NullCursor))
RateLimited == Resp(FALSE, 429, NoBody)
GetRaises == Resp(TRUE, 0, NoBody)

\* What the listing endpoint answers to one request_with_retries call of
\* a credential of the pool, by the cursor sent: the page asked for, or a
\* GET that raises.
PoolScripts ==
    [cur \in {AbsentParam, "C1"} |->
        IF cur = AbsentParam
        THEN { <<PageMore>>, <<PageLast>>, <<GetRaises>> }
        ELSE { <<PageLast>>, <<GetRaises>> }]

\* The same in a whole run: also an empty page, a refusal, a page after a
\* rate limit, and nothing but rate limits.
RunScripts ==
    [cur \in {AbsentParam, "C1"} |->
        PoolScripts[cur] \cup
        { <<Resp(FALSE, 404, NoBody)>>,
          <<RateLimited, RateLimited, RateLimited, RateLimited, RateLimited>> }
        \cup (IF cur = AbsentParam
              THEN { <<PageEmpty>>, <<RateLimited, PageLast>> } ELSE {})]

\* Responses of the transaction endpoint in such a run.
RunDateResponses ==
    { Resp(FALSE, 200, TxnBody(TRUE, TRUE, TRUE, <<TxnItem(TRUE, "2025-02-01")>>)),
      Resp(FALSE, 200, TxnBody(TRUE, TRUE, TRUE, <<>>)),
      Resp(FALSE, 429, TxnBody(FALSE, FALSE, FALSE, <<>>)) }

\* Bodies of a 200 answer of the transaction endpoint.
TxnBodies ==
    { TxnBody(FALSE, FALSE, FALSE, <<>>),
      TxnBody(TRUE, FALSE, FALSE, <<>>),
      TxnBody(TRUE, TRUE, FALSE, <<>>),
      TxnBody(TRUE, TRUE, TRUE, <<>>),
      TxnBody(TRUE, TRUE, TRUE, <<TxnItem(FALSE, "null")>>),
      TxnBody(TRUE, TRUE, TRUE, <<TxnItem(TRUE, "null")>>),
      TxnBody(TRUE, TRUE, TRUE, <<TxnItem(TRUE, "2025-02-01")>>),
      TxnBody(TRUE, TRUE, TRUE, <<TxnItem(TRUE, "2025-02-01"), TxnItem(TRUE, "2025-03-01")>>) }

\* Responses to a stand-alone transaction-date call.
DateResponses ==
    {Resp(FALSE, s, TxnBody(FALSE, FALSE, FALSE, <<>>)) : s \in (Statuses \cup {503}) \ {200}}
    \cup {Resp(FALSE, 200, b) : b \in TxnBodies}
    \cup {Resp(TRUE, 0, TxnBody(FALSE, FALSE, FALSE, <<>>))}

\* ------------------------------------- specification of the retry-GET alone
InitPipeline ==
    /\ queue = <<>>
    /\ submitted = {}
    /\ collected = {}
    /\ logged = {}
    /\ all_rows = <<>>
    /\ phase = "start"
    /\ aborted = "no"
    /\ df = <<>>
    /\ transaction_dates = <<>>
    /\ table = PriorTable

InitGet ==
    /\ tokens = [c \in {1} |-> "tok"]
    /\ \E m \in 0..MaxRetriesArg :
         task = [c \in Creds |-> IF c = 1 THEN CallGet(IdleTask, m) ELSE IdleTask]
    /\ InitPipeline
    /\ date = IdleDate

NextGet ==
    \/ GetStep(1, GetResponses)
    \/ BackoffDone(1)

SpecGet == InitGet /\ [][NextGet]_vars

\* ------------------------------ specification of one credential's fetch
InitFetch ==
    /\ tokens = [c \in {1} |-> "tok"]
    /\ task = [c \in Creds |-> IF c = 1 THEN StartFetch(IdleTask) ELSE IdleTask]
    /\ InitPipeline
    /\ date = IdleDate

NextFetch ==
    \/ GetStep(1, PageResponses)
    \/ BackoffDone(1)
    \/ Parse(1)
    \/ DelayDone(1, MaxPages)

SpecFetch == InitFetch /\ [][NextFetch]_vars

\* ------------------- specification of one credential's fetch that goes on
\* Pages of the listing endpoint by what decides the course of the
\* pagination: items or none, has_more true, false or absent, a cursor or
\* none; and two bodies that end it, undecodable or without "items".
PagingBodies ==
    { ListBody(TRUE, TRUE, TRUE, items, hm, cur) :
        items \in {<<>>, <<InvB, InvA>>},
        hm \in {"true", "false", "absent"},
        cur \in {NullCursor, "C1"} }
    \cup { ListBody(FALSE, FALSE, FALSE, <<>>, "absent", NullCursor),
           ListBody(TRUE, TRUE, FALSE, <<>>, "true", "C1") }

PagingResponses ==
    {Resp(FALSE, s, NoBody) : s \in {404, 429}}
    \cup {Resp(FALSE, 200, b) : b \in PagingBodies}
    \cup {GetRaises}

NextPaging ==
    \/ GetStep(1, PagingResponses)
    \/ BackoffDone(1)
    \/ Parse(1)
    \/ DelayDone(1, MaxPages)

\* The thread keeps running: a GET that was sent is answered or raises, a
\* sleep ends, and the code after it is executed.
SpecPaging == InitFetch /\ [][NextPaging]_vars /\ WF_vars(NextPaging)

\* ------------------------- specification of the transaction-date call alone
InitDate ==
    /\ tokens = [c \in {1} |-> "tok"]
    /\ task = [c \in Creds |-> IdleTask]
    /\ InitPipeline
    /\ \E m \in 0..MaxRetriesArg : date = CallDate("u1", m)

NextDate == DateStep(DateResponses)

SpecDate == InitDate /\ [][NextDate]_vars

\* ------------------------------------- specification of the orchestration
\* The credential mapping: n credentials, each with a token value from V.
TokenMaps(n, V) == UNION {[1..k -> V] : k \in 0..n}

InitPool ==
    /\ tokens \in TokenMaps(MaxCreds, {"tok"})
    /\ task = [c \in Creds |-> IdleTask]
    /\ InitPipeline
    /\ date = IdleDate

\* The main thread up to the end of the with block, and the workers.
Orchestrate ==
    \/ LoadCredentials
    \/ \E c \in Creds : Submit(c)
    \/ AllSubmitted
    \/ \E c \in Creds : Start(c)
    \/ \E c \in Creds : Collect(c)
    \/ ExitPool

NextPool ==
    \/ Orchestrate
    \/ \E c \in Creds : PageStep(c, PoolScripts)

SpecPool == InitPool /\ [][NextPool]_vars

\* ------------------------------------------ specification of a whole run
Init ==
    /\ tokens \in TokenMaps(MaxRunCreds, {"tok"})
    /\ task = [c \in Creds |-> IdleTask]
    /\ InitPipeline
    /\ date = IdleDate

Next ==
    \/ Orchestrate
    \/ \E c \in Creds : PageStep(c, RunScripts)
    \/ Filter
    \/ EnrichRow
    \/ DateStep(RunDateResponses)
    \/ EnrichReturn
    \/ EnrichDone
    \/ Load

Spec == Init /\ [][Next]_vars

\* ------------------ specification of two fetches with their waits
\* Responses of the listing endpoint to each of two concurrent fetches: a
\* rate limit, a page with more to come, a last page.
WaitResponses == {RateLimited, PageMore, PageLast}

InitWait ==
    /\ tokens = <<"tok", "tok">>
    /\ task = [c \in Creds |-> IdleTask]
    /\ InitPipeline
    /\ date = IdleDate

\* A step of the worker thread that runs the task of credential c.
TaskStep(c) ==
    \/ GetStep(c, WaitResponses)
    \/ BackoffDone(c)
    \/ Parse(c)
    \/ DelayDone(c, MaxPages)

NextWait ==
    \/ Orchestrate
    \/ \E c \in Creds : TaskStep(c)

SpecWait == InitWait /\ [][NextWait]_vars

\* ------------------- specification of the filter, enrichment and load
\* Invoices by what the filter and the enrichment look at: reconciled
\* true, false or missing; accounting_status archived, another, or missing;
\* the url of matched_transactions a URL, missing, empty, blank, a number, an
\* array.
EnrichInvoices ==
    { Invoice(TRUE, "K1", "true", "validated", "dict", "u1"),
      Invoice(TRUE, "K2", "true", "null", "dict", "u2"),
      Invoice(TRUE, "K3", "false", "validated", "dict", "u1"),
      Invoice(TRUE, "K4", "null", "validated", "dict", "u2"),
      Invoice(TRUE, "K5", "true", "archived", "dict", "u1"),
      Invoice(TRUE, "K6", "true", "validated", "none", "null"),
      Invoice(TRUE, "K7", "true", "validated", "dict", ""),
      Invoice(TRUE, "K8", "true", "validated", "dict", " "),
      Invoice(TRUE, "K9", "true", "validated", "dict", NonStringUrl),
      Invoice(TRUE, "K10", "true", "validated", "dict", ArrayUrl) }

\* Credential mappings of such a run: two credentials, the second with a
\* token or with an empty one.
EnrichTokens == { <<"tok", "tok">>, <<"tok", "">> }

\* The date the transaction endpoint holds for a transaction URL.
DateAt(url) == IF url = "u1" THEN "2025-02-01" ELSE "2025-03-01"

\* Responses of the transaction endpoint to a GET of url: the transaction
\* with its date, a transaction without items, or a refusal.
EnrichDateResponses(url) ==
    { Resp(FALSE, 200, TxnBody(TRUE, TRUE, TRUE, <<TxnItem(TRUE, DateAt(url))>>)),
      Resp(FALSE, 200, TxnBody(TRUE, TRUE, TRUE, <<>>)),
      Resp(FALSE, 404, TxnBody(FALSE, FALSE, FALSE, <<>>)) }

\* The frame of the task of credential c after it fetched a listing of one
\* page with the given items and returned.
Fetched(c, items) ==
    LET page == Resp(FALSE, 200, ListBody(TRUE, TRUE, TRUE, items, "false", NullCursor))
        called == RunCall(StartFetch(IdleTask), <<page>>)
    IN  LoopTest(ParsePage(called, c))

\* The state at the end of the with block: both tasks have returned their
\* rows and the collection loop has appended them.
InitEnrich ==
    /\ tokens \in EnrichTokens
    /\ \E n \in 0..MaxRows : \E items \in [1..n -> EnrichInvoices] : \E k \in 0..n :
         task = [c \in Creds |->
                   IF c = 1 THEN Fetched(1, SubSeq(items, 1, k))
                   ELSE IF c = 2 THEN Fetched(2, SubSeq(items, k + 1, n))
                   ELSE IdleTask]
    /\ all_rows = Extend(Extend(<<>>, task[1].rows), task[2].rows)
    /\ queue = <<>>
    /\ submitted = {1, 2}
    /\ collected = {1, 2}
    /\ logged = {}
    /\ phase = "filter"
    /\ aborted = "no"
    /\ df = <<>>
    /\ transaction_dates = <<>>
    /\ date = IdleDate
    /\ table = PriorTable

NextEnrich ==
    \/ Filter
    \/ EnrichRow
    \/ DateStep(EnrichDateResponses(date.url))
    \/ EnrichReturn
    \/ EnrichDone
    \/ Load

SpecEnrich == InitEnrich /\ [][NextEnrich]_vars

\* ------------------------------------------------------------------ claims
\* request_with_retries has returned to its caller.
GetReturned(t) == t.pc = "got"

\* The number of 429 answers among the statuses received.
RECURSIVE Count429(_)
Count429(ss) ==
    IF ss = <<>> THEN 0
    ELSE (IF Head(ss) = 429 THEN 1 ELSE 0) + Count429(Tail(ss))

\* C9: the listing retry-GET issues at most max_retries requests; it never
\* issues a request after an answer that is not a 429; it returns the 200
\* response when a 200 arrives after fewer than max_retries 429s, no-result
\* at the first status that is neither 200 nor 429, and no-result after
\* max_retries 429s.
C9_RetryGetOutcome ==
    LET t == task[1]
        n == Len(t.statuses)
    IN  /\ t.gets <= t.max_retries
        /\ \A i \in 1..(n - 1) : t.statuses[i] = 429
        /\ (n > 0 /\ t.statuses[n] # 429) => GetReturned(t)
        /\ GetReturned(t) =>
             IF n > 0 /\ t.statuses[n] = 200
             THEN /\ ~t.response.none
                  /\ t.response.status = 200
                  /\ n - 1 < t.max_retries
             ELSE IF n > 0 /\ t.statuses[n] # 429
             THEN t.response.none /\ t.gets = n
             ELSE t.response.none /\ n = t.max_retries

\* C9 witness: a 200 after two 429s has been returned by a call with the
\* default max_retries.
C9_Witness ==
    /\ task[1].max_retries = DefaultMaxRetries
    /\ task[1].statuses = <<429, 429, 200>>
    /\ GetReturned(task[1])
    /\ ~task[1].response.none

\* C10: a wait follows each 429 and nothing else; the wait after the k-th
\* 429 of a call (k = 0, 1, ...) is min(60, 2^k) and so at most 60; a 429
\* followed by a 200 gives exactly one wait and one retry.
C10_BackoffSchedule ==
    LET t == task[1]
        n == Len(t.statuses)
    IN  /\ Len(t.waits) = Count429(t.statuses)
        /\ t.pc = "backoff" => (n > 0 /\ t.statuses[n] = 429 /\ Len(t.waits) = n)
        /\ \A k \in 0..(Len(t.waits) - 1) :
             /\ t.waits[k + 1] = (IF 2 ^ k < 60 THEN 2 ^ k ELSE 60)
             /\ t.waits[k + 1] <= 60
        /\ t.statuses = <<429, 200>> => (Len(t.waits) = 1 /\ t.gets = 2)

\* C10 witness: the seventh 429 of a call has been answered by the capped
\* wait of 60 seconds.
C10_Witness ==
    /\ Len(task[1].waits) = 7
    /\ task[1].waits[7] = 60
    /\ task[1].waits[6] = 32

\* The statuses received are all retryable ones (429 or 5xx).
AllRetryable(ss) == \A i \in 1..Len(ss) : DateRetryable(ss[i])

\* C1: fetch_transaction_date_with_retries issues at most max_retries GET
\* requests, and a call whose requests were all answered with 429 or 5xx
\* ends, after max_retries of them, with null.
C1_DateFetchBounded ==
    /\ date.gets <= date.max_retries
    /\ (date.pc = "done" /\ date.gets = Len(date.statuses)
          /\ AllRetryable(date.statuses)) =>
         (date.gets = date.max_retries /\ date.result = "null")

\* The rows of a sequence of processed pages, in page order.
RECURSIVE RowsOfPages(_, _)
RowsOfPages(tag, pages) ==
    IF pages = <<>> THEN <<>>
    ELSE RowsOf(tag, Head(pages).items) \o RowsOfPages(tag, Tail(pages))

\* C2: no exception escapes the listing fetch path: the fetch task of a
\* credential never ends by raising.
C2_NoExceptionEscapes == task[1].pc # "raised"

\* The pages received are n pages of which all but the last have
\* has_more = true and a next_cursor outside the set none, and the last
\* has has_more = false.
SuccessPath(pages, none) ==
    /\ pages # <<>>
    /\ \A k \in 1..(Len(pages) - 1) :
         pages[k].has_more = "true" /\ pages[k].next_cursor \notin none
    /\ pages[Len(pages)].has_more = "false"

\* Exactly one request per page, the k-th carrying the cursor of page k-1
\* (the first none), and the rows of all pages returned in page order.
PaginatedInOrder(t, tag) ==
    /\ Len(t.reqs) = Len(t.pages)
    /\ \A k \in 1..Len(t.reqs) :
         t.reqs[k] = (IF k = 1 THEN AbsentParam ELSE t.pages[k - 1].next_cursor)
    /\ t.rows = RowsOfPages(tag, t.pages)

\* C7 as stated: after n pages with has_more = true and a non-null
\* next_cursor on all but the last, the fetch has issued exactly n page
\* requests with the cursors absent, C1, ..., C(n-1) and returns the items
\* of all pages in page order.
C7_NonNullCursors ==
    (task[1].pc = "returned" /\ SuccessPath(task[1].pages, {NullCursor}))
        => PaginatedInOrder(task[1], 1)

\* C7 amended: the same for next_cursor values that are neither null nor
\* the empty string.
C7_CursorPagination ==
    (task[1].pc = "returned" /\ SuccessPath(task[1].pages, {NullCursor, ""}))
        => PaginatedInOrder(task[1], 1)

\* C7 witness: three pages with cursors C1 and C2 have been fetched and
\* returned.
C7_Witness ==
    /\ task[1].pc = "returned"
    /\ Len(task[1].pages) = 3
    /\ SuccessPath(task[1].pages, {NullCursor, ""})
    /\ task[1].reqs = <<AbsentParam, "C1", "C2">>
    /\ Len(task[1].rows) = 4

\* The last request_with_retries call has yielded no usable page: no
\* result, an undecodable body, or an object without "items".
PageFailed(t) ==
    \/ t.response.none /\ t.gets > 0 /\ t.gets = Len(t.statuses)
    \/ ~t.response.none /\ ~t.response.body.json
    \/ ~t.response.none /\ t.response.body.dict /\ ~t.response.body.has_items

\* C8: when the request for page k yields no result (five 429s or a status
\* other than 200 and 429), an undecodable body or a body without items,
\* the fetch returns exactly the rows of pages 1..k-1 and issues no further
\* request.
C8_PartialFailure ==
    /\ [](LET t == task[1]
          IN  /\ (t.response.none /\ t.pc = "got" /\ t.gets > 0) =>
                    \/ t.statuses = <<429, 429, 429, 429, 429>>
                    \/ t.statuses[Len(t.statuses)] \notin {200, 429}
              /\ (PageFailed(t) /\ t.pc \notin {"get", "backoff", "got"}) =>
                    /\ t.pc = "returned"
                    /\ t.rows = RowsOfPages(1, t.pages)
                    /\ Len(t.reqs) = Len(t.pages) + 1)
    /\ [][task[1].pc = "returned" => task'[1] = task[1]]_vars

\* C8 witness: page 2 was refused with five 429s and the rows of page 1
\* have been returned.
C8_Witness ==
    /\ task[1].pc = "returned"
    /\ task[1].response.none
    /\ task[1].statuses = <<429, 429, 429, 429, 429>>
    /\ Len(task[1].pages) = 1
    /\ task[1].rows = RowsOfPages(1, task[1].pages)
    /\ Len(task[1].rows) = 2

\* The rows of a sequence that carry the tag of credential c, in order.
RowsWithTag(rows, c) == SelectSeq(rows, LAMBDA r : r.tag = c)

\* The with block of the orchestration has been left.
Orchestrated == phase \notin {"start", "submit", "collect"}

\* C3: with one credential whose task raised after accumulating rows and
\* one whose task returned, the combined rows after orchestration hold the
\* rows of the task that returned and the rows the raising task had
\* accumulated, and no exception has escaped the orchestration.
C3_PartialRowsOfRaisedKept ==
    (/\ phase = "filter"
     /\ Cardinality(DOMAIN tokens) = 2
     /\ \E f, g \in DOMAIN tokens :
          /\ task[f].pc = "raised" /\ task[f].rows # <<>>
          /\ task[g].pc = "returned")
    => /\ \A c \in DOMAIN tokens : RowsWithTag(all_rows, c) = task[c].rows
       /\ aborted = "no"

\* C4: a run over at least one credential is ended by an unhandled error
\* only in the load step or in the parsing of the credentials, whatever
\* the fetches yield.
C4_AbortOnlyInLoadOrCredentials ==
    DOMAIN tokens # {} => aborted \in {"no", "load", "credentials"}

\* C5: at most 3 fetch tasks are in flight at any time, and each
\* credential's fetch is started exactly once: never twice, not before it
\* is taken from the queue, and once by the end of the orchestration.
C5_BoundedPool ==
    /\ Cardinality(InFlight) <= 3
    /\ \A c \in Creds :
         /\ task[c].runs <= 1
         /\ task[c].pc \in {"idle", "queued"} => task[c].runs = 0
         /\ task[c].pc \notin {"idle", "queued"} => task[c].runs = 1
         /\ (Orchestrated /\ aborted = "no" /\ c \in DOMAIN tokens) => task[c].runs = 1

\* C5 witness: three tasks are in flight while a fourth waits in the queue.
C5_Witness ==
    /\ Cardinality(InFlight) = 3
    /\ queue # <<>>
    /\ Cardinality(DOMAIN tokens) > 3

\* C6: the rows collected from a task that returned are, at any time and
\* whatever the other tasks do, exactly the rows it returned, once each
\* and in page order, and nothing else is in the combined sequence; after
\* the orchestration every task has ended and been collected, those that
\* raised having been logged.
C6_FailureIsolation ==
    /\ \A c \in Creds :
         /\ (c \in collected /\ task[c].pc = "returned") =>
               /\ RowsWithTag(all_rows, c) = task[c].rows
               /\ task[c].rows = RowsOfPages(c, task[c].pages)
         /\ (c \notin collected \/ task[c].pc # "returned") =>
               RowsWithTag(all_rows, c) = <<>>
    /\ (Orchestrated /\ aborted = "no") =>
         /\ collected = DOMAIN tokens
         /\ \A c \in DOMAIN tokens : Finished(task[c])
         /\ logged = {c \in DOMAIN tokens : task[c].pc = "raised"}

\* C6 witness: after the orchestration, one task has raised after its
\* first page and two others have returned two pages each.
C6_Witness ==
    /\ phase = "filter"
    /\ \E f, g, h \in DOMAIN tokens :
         /\ g # h
         /\ task[f].pc = "raised" /\ Len(task[f].pages) = 1
         /\ task[g].pc = "returned" /\ Len(task[g].pages) = 2
         /\ task[h].pc = "returned" /\ Len(task[h].pages) = 2
         /\ Len(all_rows) >= 6

\* The number of retryable answers (429 or 5xx) among the statuses received.
RECURSIVE CountRetryable(_)
CountRetryable(ss) ==
    IF ss = <<>> THEN 0
    ELSE (IF DateRetryable(Head(ss)) THEN 1 ELSE 0) + CountRetryable(Tail(ss))

\* C11: the transaction-date fetcher waits once after each 429 or 5xx answer
\* and after nothing else, and the wait after the k-th retryable answer of a
\* call (k = 0, 1, 2, ...) is 2^k seconds: 1, 2, 4, 8, ... without a cap.
C11_DateBackoffSchedule ==
    /\ Len(date.waits) = CountRetryable(date.statuses)
    /\ \A k \in 0..(Len(date.waits) - 1) : date.waits[k + 1] = 2 ^ k
    /\ \A k \in 1..(Len(date.waits) - 1) : date.waits[k] < date.waits[k + 1]

\* The date the contract promises for a 200 body: that of the first item
\* of its item list, null when there is none or the body cannot be read.
FirstItemDate(body) ==
    IF body.json /\ body.dict /\ body.has_items /\ body.items # <<>>
       /\ body.items[1].dict
    THEN body.items[1].date
    ELSE "null"

\* The latest requests.get of the call raised, or was answered with a
\* status that is not retried.
DateSettled(d) ==
    d.gets > 0 /\ (d.response.exc \/ ~DateRetryable(d.response.status))

\* C18: a transaction-date call whose request is answered with 200 returns
\* the date of the first item of the body, or null when the list is empty,
\* absent or unreadable; one answered with a status other than 200, 429 and
\* 5xx, or whose GET raises, returns null; in each case the call ends with
\* that request, and when it is the first request the call has made exactly
\* one request and no wait.
C18_DateResultNoRetry ==
    /\ \A i \in 1..(Len(date.statuses) - 1) : DateRetryable(date.statuses[i])
    /\ DateSettled(date) =>
         /\ date.pc = "done"
         /\ date.result = (IF ~date.response.exc /\ date.response.status = 200
                           THEN FirstItemDate(date.response.body)
                           ELSE "null")
         /\ date.gets = CountRetryable(date.statuses) + 1
         /\ (date.statuses = <<>> \/ ~DateRetryable(date.statuses[1])) =>
               (date.gets = 1 /\ date.waits = <<>>)

\* C18 witness: the first request of a call was answered with 200 and two
\* items, and the call has returned the date of the first.
C18_Witness ==
    /\ date.pc = "done"
    /\ date.gets = 1
    /\ date.statuses = <<200>>
    /\ Len(date.response.body.items) = 2
    /\ date.result = "2025-02-01"

\* The cursor parameter that the response page calls for: its next_cursor,
\* or none when that is null or absent.
CursorOf(page) ==
    IF page.next_cursor = NullCursor THEN AbsentParam ELSE page.next_cursor

\* C19: the first listing request carries no cursor, and each later request
\* carries the next_cursor of the immediately preceding response when that
\* is non-null and no cursor otherwise, never the cursor of an earlier page
\* (stated for paginations in which no next_cursor was the empty string,
\* the case C7 is about).
C19_CursorFromLatestResponse ==
    LET t == task[1]
    IN  (\A k \in 1..Len(t.pages) : t.pages[k].next_cursor # "") =>
          \A k \in 1..Len(t.reqs) :
             t.reqs[k] = (IF k = 1 THEN AbsentParam ELSE CursorOf(t.pages[k - 1]))

\* The value request_with_retries returned is a page that ends the
\* pagination: a readable body whose has_more is false or absent.
IsLastPage(response) ==
    /\ ~response.none
    /\ response.body.json /\ response.body.dict /\ response.body.has_items
    /\ response.body.has_more \in {"false", "absent"}

\* The model has stopped the pagination at MaxPages requests.
StoppedAtBound(t) == t.pc = "delay" /\ t.has_more /\ Len(t.reqs) >= MaxPages

\* C20: the pagination of a credential ends unless the endpoint goes on
\* answering pages with has_more = true, and it ends once a page request
\* has failed or was answered with a page whose has_more is false or
\* absent; the items of such a page are appended and no request follows it;
\* every page request starts with the whole retry budget, so that it is
\* given up for rate limiting only after five 429s of its own.
C20_PaginationTerminates ==
    /\ [](LET t == task[1]
          IN  /\ (t.pc = "delay" /\ t.pages # <<>>
                     /\ t.pages[Len(t.pages)].has_more \in {"false", "absent"}) =>
                    /\ ~t.has_more
                    /\ t.rows = RowsOfPages(1, t.pages)
                    /\ Len(t.reqs) = Len(t.pages)
              /\ (t.pc \in {"get", "got"} /\ t.gets = Len(t.statuses)) =>
                    t.retries = Count429(t.statuses)
              /\ (t.pc = "got" /\ t.response.none /\ t.gets > 0
                     /\ t.statuses[Len(t.statuses)] = 429) =>
                    t.statuses = <<429, 429, 429, 429, 429>>)
    /\ [][(task[1].pc = "delay" /\ ~task[1].has_more) =>
             (task'[1].pc = "returned" /\ task'[1].reqs = task[1].reqs
              /\ task'[1].rows = task[1].rows)]_vars
    /\ [][task[1].pc = "returned" => task'[1] = task[1]]_vars
    /\ ((task[1].pc = "got" /\ (PageFailed(task[1]) \/ IsLastPage(task[1].response)))
          ~> Finished(task[1]))
    /\ <>(Finished(task[1]) \/ StoppedAtBound(task[1]))

\* C20 witness: the first page request absorbed 429s, the second absorbed
\* four more before its 200, a page of two items without has_more, and
\* the fetch has returned the rows of both pages.
C20_Witness ==
    /\ task[1].pc = "returned"
    /\ task[1].throttled
    /\ task[1].statuses = <<429, 429, 429, 429, 200>>
    /\ Len(task[1].pages) = 2
    /\ task[1].pages[2].has_more = "absent"
    /\ Len(task[1].pages[2].items) = 2
    /\ task[1].rows = RowsOfPages(1, task[1].pages)
    /\ Len(task[1].reqs) = 2

\* A row the filter is to remove: reconciled false or missing, or archived.
Excluded(row) == row.reconciled # "true" \/ row.accounting_status = "archived"

\* The rows of the combined result the filter is to keep, in order.
Survivors == SelectSeq(all_rows, LAMBDA r : ~Excluded(r))

\* The row the enrichment loop is at.
CurrentRow == df[Len(transaction_dates) + 1]

\* The data frame is the Final Dataset: the enrichment is over.
Final == phase \in {"load", "done"}

\* C12: no row whose reconciled is not true and no archived row is in the
\* data frame once it is filtered, in the Final Dataset or in the table
\* loaded from it, and a transaction-date call is made only for a row that
\* is neither, with that row's URL.
C12_FilterInvariant ==
    /\ phase \in {"enrich", "load", "done"} =>
          \A i \in 1..Len(df) : ~Excluded(df[i])
    /\ phase = "done" => \A i \in 1..Len(table) : ~Excluded(table[i])
    /\ date.pc # "idle" =>
          /\ phase = "enrich"
          /\ ~Excluded(CurrentRow)
          /\ date.url = CurrentRow.matching_transaction

\* C12 witness: a run over an unreconciled row, an archived row and a row
\* that passes the filter, all three with a transaction, has loaded the
\* third alone.
C12_Witness ==
    /\ phase = "done"
    /\ Len(all_rows) = 3
    /\ all_rows[1].reconciled = "false" /\ all_rows[1].matching_transaction = "u1"
    /\ all_rows[2].accounting_status = "archived" /\ all_rows[2].matching_transaction = "u1"
    /\ Len(table) = 1
    /\ table[1].label = all_rows[3].label

\* The positions of the dates gathered that are not null, in order.
Resolved ==
    SelectSeq([i \in 1..Len(transaction_dates) |-> i],
              LAMBDA i : transaction_dates[i] # "null")

\* C13: every row of the Final Dataset has a non-null transaction_date,
\* which is the date of the transaction of that row; the Final Dataset is,
\* in order, the rows kept by the filter for which a non-null date was
\* gathered, each with the date gathered for it, and no other row.
C13_FinalDatasetDated ==
    Final =>
      /\ \A i \in 1..Len(df) :
            /\ df[i].transaction_date # "null"
            /\ df[i].transaction_date = DateAt(df[i].matching_transaction)
      /\ Len(transaction_dates) = Len(Survivors)
      /\ Len(df) = Len(Resolved)
      /\ \A j \in 1..Len(Resolved) :
            LET row == Survivors[Resolved[j]]
            IN  /\ df[j].tag = row.tag
                /\ df[j].label = row.label
                /\ df[j].reconciled = row.reconciled
                /\ df[j].accounting_status = row.accounting_status
                /\ df[j].matching_transaction = row.matching_transaction
                /\ df[j].transaction_date = transaction_dates[Resolved[j]]

\* C13 witness: of three rows kept by the filter the first got no date and
\* was dropped, the other two were loaded with the dates of their own
\* transactions, which differ.
C13_Witness ==
    /\ phase = "done"
    /\ Len(Survivors) = 3
    /\ transaction_dates = <<"null", "2025-03-01", "2025-02-01">>
    /\ Survivors[1].matching_transaction = "u1"
    /\ Len(table) = 2
    /\ table[1].matching_transaction = "u2" /\ table[1].transaction_date = "2025-03-01"
    /\ table[2].matching_transaction = "u1" /\ table[2].transaction_date = "2025-02-01"

\* A row that cannot be enriched: its matching_transaction is missing or
\* null, empty, blank or no string, or its tag has no token or an empty one.
Unenrichable(row) ==
    \/ row.matching_transaction \notin {"u1", "u2"}
    \/ row.tag \notin DOMAIN tokens
    \/ tokens[row.tag] = ""

\* C14: for a row kept by the filter that cannot be enriched, no
\* transaction-date call is made, the date gathered is null, the row is not
\* in the Final Dataset, and the enrichment goes on after it.
C14_UnenrichableRowsSkipped ==
    /\ phase \in {"enrich", "aborted"} /\ aborted \in {"no", "enrich"} =>
          \A i \in 1..Len(transaction_dates) :
             Unenrichable(df[i]) => transaction_dates[i] = "null"
    /\ date.pc # "idle" => ~Unenrichable(CurrentRow)
    /\ Final => \A i \in 1..Len(df) : ~Unenrichable(df[i])
    /\ aborted = "enrich" => ~Unenrichable(CurrentRow)

\* C15: the destination table is written at most once in a run, by the
\* load step alone, when every fetch task has ended and been collected and
\* a date has been gathered for every row kept by the filter; after a
\* successful load the table holds exactly the Final Dataset and no row it
\* held before.
C15_LoadOnceFullReplace ==
    /\ [](phase # "done" => table = PriorTable)
    /\ [](phase = "done" =>
            /\ table = df
            /\ \A i \in 1..Len(table) : \A j \in 1..Len(PriorTable) :
                  table[i] # PriorTable[j])
    /\ [][table' # table =>
            /\ phase = "load" /\ phase' = "done"
            /\ \A c \in DOMAIN tokens :
                  task[c].pc \in {"returned", "raised"} /\ c \in collected
            /\ Len(transaction_dates) = Len(Survivors)
            /\ date.pc = "idle"
            /\ table' = df]_vars
    /\ [][phase = "done" => table' = table]_vars

\* C15 witness: a run over two credentials has loaded a Final Dataset of
\* two rows or more in place of the prior contents.
C15_Witness ==
    /\ phase = "done"
    /\ Cardinality(DOMAIN tokens) = 2
    /\ Len(table) >= 2
    /\ table = df
    /\ table[1].tag # 0

\* C16: a step that changes a task changes that task alone and leaves the
\* combined result as it is; the combined result changes only in a turn of
\* the collection loop, which appends to it the whole result of one task
\* that has returned and changes no task; a future is collected only when
\* its task has ended.
C16_NoRaceOnResults ==
    [][/\ \A c \in Creds :
             task'[c] # task[c] =>
               /\ all_rows' = all_rows
               /\ \A d \in Creds \ {c} : task'[d] = task[d]
       /\ all_rows' # all_rows =>
             \E c \in Creds :
                /\ phase = "collect"
                /\ task[c].pc = "returned"
                /\ c \notin collected
                /\ all_rows' = all_rows \o task[c].rows
                /\ task' = task
       /\ collected' # collected =>
             \E c \in Creds :
                /\ collected' = collected \cup {c}
                /\ task[c].pc \in {"returned", "raised"}]_vars

\* C16 witness: the rows of one task are in the combined result while
\* another task is still in flight with rows of its own.
C16_Witness ==
    \E c, d \in Creds :
       /\ c \in collected /\ task[c].rows # <<>>
       /\ all_rows = task[c].rows
       /\ task[d].pc = "get" /\ task[d].rows # <<>>

\* C17: while the task of one credential is in a backoff wait or in the
\* politeness delay, the task of every other credential that is in flight
\* can take its next step (a task the model has stopped at MaxPages requests
\* aside).
C17_WaitBlocksCallerOnly ==
    \A c, d \in Creds :
       (c # d /\ Sleeping(task[c]) /\ Running(task[d]) /\ ~StoppedAtBound(task[d]))
          => ENABLED TaskStep(d)

\* C17 witness: one task is in its third backoff wait while the other,
\* with one page fetched, is about to send its next request.
C17_Witness ==
    /\ task[1].pc = "backoff"
    /\ task[1].waits = <<1, 2, 4>>
    /\ task[2].pc = "get"
    /\ Len(task[2].pages) = 1

====
